---- MODULE Spec2Model ----
(***************************************************************************)
(* GearBot-2: the shard lifecycle and cache coordination layer.            *)
(*                                                                         *)
(* The state is that of BotContext (src/core/bot_context/mod.rs) together  *)
(* with the request correlator (chunk_requests) used by                    *)
(* src/core/handlers/general.rs and the guild cache read by                *)
(* src/core/handlers/commands.rs.  One action models the handling of one   *)
(* gateway event by the event router.  Parts of the router that the        *)
(* repository keeps outside the files modelled here (set_state, the guild  *)
(* cache updates, the registration and timeout of a chunk request, the     *)
(* role cache's map and the cold-resume manager) are modelled from the     *)
(* design document and are marked "design" below.  CachedRole, its         *)
(* conversions and its serialized form follow src/core/cache/role.rs, the  *)
(* counters of BotStats follow src/core/context/bot/stats.rs.              *)
(***************************************************************************)
EXTENDS Integers, Sequences, FiniteSets, TLC

\* ----------------------------------------------------------------- bounds
MaxCluster == 1            \* cluster_id ranges over 0..MaxCluster
MaxShardsPerCluster == 2   \* shards_per_cluster ranges over 1..MaxShardsPerCluster
MaxNonce == 2              \* nonces are 1..MaxNonce
MaxPayload == 2            \* member-chunk payloads are 1..MaxPayload
MaxGuild == 2              \* guild ids are 1..MaxGuild
MaxExpected == 2           \* expected member chunks of a guild are 1..MaxExpected
MaxRole == 2               \* role ids are 1..MaxRole
MaxSequence == 1           \* gateway sequence numbers are 0..MaxSequence
MaxCaller == 2             \* concurrent callers of new_message are 1..MaxCaller
MaxCalls == 3              \* calls of the BotStats methods followed, per counter group
UsizeBits == 4             \* width of usize followed (the platform's is 64)

Nonces == 1..MaxNonce
Payloads == 1..MaxPayload
GuildIds == 1..MaxGuild
RoleIds == 1..MaxRole
Callers == 1..MaxCaller

\* Option<T>: None is the empty set, Some(x) the singleton {x}.
None == {}
Some(x) == {x}
Option(S) == {None} \cup {Some(x) : x \in S}
Unwrap(o) == CHOOSE x \in o : TRUE

\* ------------------------------------------------------------------ state
VARIABLES
    scheme_info,        \* SchemeInfo: cluster_id, shards_per_cluster
    shard_states,       \* BotContext.shard_states: shard id -> ShardState
    missing_per_shard,  \* Cache.missing_per_shard: shard id -> counter
    pending,            \* stats.shard_counts.pending gauge
    ready,              \* stats.shard_counts: the ready-shard gauge
    chunk_requests,     \* ctx.chunk_requests: nonce -> sender (a set: the sender of nonce n feeds waiter n)
    waiter,             \* receiving end of the request of each nonce
    got,                \* payloads each waiter has received
    guilds,             \* ctx.cache guilds: guild id -> Option<CachedGuild>
    roles,              \* ctx.cache roles: role id -> Option<Arc<CachedRole>>
    guard,              \* a reader's ElementGuard: the Arc it got from the map
    held,               \* the reader's CachedRole built from its guard
    subject,            \* the value handed to the serializer
    wire,               \* its serialized form
    back,               \* what the deserializer made of the serialized form
    store,              \* the durable store's snapshot for this cluster
    boot,               \* how each shard was started: identify or resume
    sessions,           \* the live resume triple of each shard
    user_messages,      \* BotStats.user_messages
    bot_messages,       \* BotStats.bot_messages
    my_messages,        \* BotStats.my_messages
    guild_count,        \* BotStats.guilds
    callers,            \* the message of each caller that is inside new_message
    calls,              \* completed calls of the BotStats methods, by kind
    ev,                 \* the event handled by the last step
    ret,                \* what the handlers returned for it
    forwarded,          \* messages handed to Parser::figure_it_out by the last step
    issued              \* gateway commands issued by the last step

shardVars == <<scheme_info, shard_states, missing_per_shard, pending, ready>>
chunkVars == <<chunk_requests, waiter, got>>
guildVars == <<guilds>>
roleVars == <<roles, guard, held>>
serdeVars == <<subject, wire, back>>
resumeVars == <<store, boot, sessions>>
statsVars == <<user_messages, bot_messages, my_messages, guild_count, callers, calls>>
extVars == <<roleVars, serdeVars, resumeVars, statsVars>>
stepVars == <<ev, ret, forwarded, issued>>
vars == <<shardVars, chunkVars, guildVars, extVars, stepVars>>

\* ------------------------------------------------------------ shard table
\* enum ShardState
ShardState ==
    {"PendingCreation", "Connecting", "Identifying", "Connected",
     "Ready", "Resuming", "Reconnecting", "Disconnected"}

\* The half-open range a..b of a Rust for loop.
Range(a, b) == a..(b - 1)

\* As OwnedShards, with an inclusive upper end.
OwnedShardsOffByOne(si) ==
    Range(si.cluster_id * si.shards_per_cluster,
          si.cluster_id * si.shards_per_cluster + si.shards_per_cluster + 1)

\* The shard ids BotContext::new registers.
OwnedShards(si) ==
    Range(si.cluster_id * si.shards_per_cluster,
          si.cluster_id * si.shards_per_cluster + si.shards_per_cluster)

\* As BotContextNew, with the missing counters keyed from 0 in every cluster.
BotContextNewMissingFromZero(si) ==
    [shard_states |-> [i \in OwnedShards(si) |-> "PendingCreation"],
     missing_per_shard |-> [i \in Range(0, si.shards_per_cluster) |-> 0],
     pending |-> si.shards_per_cluster]

\* BotContext::new: the shard table, the missing counters and the pending gauge.
BotContextNew(si) ==
    [shard_states |-> [i \in OwnedShards(si) |-> "PendingCreation"],
     missing_per_shard |-> [i \in OwnedShards(si) |-> 0],
     pending |-> si.shards_per_cluster]

\* As ready_gauge, counting every write of Ready, repeated or not.
ready_gauge_every_write(gauge, old, new) ==
    IF new = "Ready" THEN gauge + 1
    ELSE IF old = "Ready" THEN gauge - 1
    ELSE gauge

\* design: the side effect of set_state on the ready-shard gauge: up on a
\* transition into Ready, down on a transition out of Ready.
ready_gauge(gauge, old, new) ==
    IF new = "Ready" /\ old # "Ready" THEN gauge + 1
    ELSE IF old = "Ready" /\ new # "Ready" THEN gauge - 1
    ELSE gauge

\* As set_state, keeping an entry that has already left PendingCreation.
set_state_first_write(table, shard_id, state) ==
    IF table[shard_id] = "PendingCreation"
    THEN [table EXCEPT ![shard_id] = state]
    ELSE table

\* design: set_state(shard_id, state), idempotent, last write wins.
set_state(table, shard_id, state) == [table EXCEPT ![shard_id] = state]

\* The shards the cluster delivers events for: the ones this process runs.
ClusterShards == DOMAIN shard_states

SchemeInfos ==
    [cluster_id : 0..MaxCluster, shards_per_cluster : 1..MaxShardsPerCluster]

\* -------------------------------------------------------------- the steps
\* What a step that is not a message-create and issues no command leaves behind.
Quiet == forwarded' = {} /\ issued' = {}

Init ==
    /\ scheme_info \in SchemeInfos
    /\ shard_states = BotContextNew(scheme_info).shard_states
    /\ missing_per_shard = BotContextNew(scheme_info).missing_per_shard
    /\ pending = BotContextNew(scheme_info).pending
    /\ ready = 0
    /\ chunk_requests = {}
    /\ waiter = [n \in Nonces |-> "none"]
    /\ got = [n \in Nonces |-> <<>>]
    /\ guilds = [g \in GuildIds |-> None]
    /\ roles = [id \in RoleIds |-> None]
    /\ guard = None
    /\ held = None
    /\ subject = None
    /\ wire = None
    /\ back = None
    /\ store = None
    /\ boot = [t \in DOMAIN shard_states |-> "none"]
    /\ sessions = [t \in DOMAIN shard_states |-> None]
    /\ user_messages = 0
    /\ bot_messages = 0
    /\ my_messages = 0
    /\ guild_count = 0
    /\ callers = [c \in Callers |-> None]
    /\ calls = [user |-> 0, bot |-> 0, own |-> 0, new_guild |-> 0, left_guild |-> 0]
    /\ ev = [kind |-> "New"]
    /\ ret = "Ok"
    /\ forwarded = {}
    /\ issued = {}

\* Shard lifecycle events.  general.rs only logs ShardReconnecting and
\* ShardResuming and ignores the others; the table transition is the router's.
LifecycleState ==
    [ShardConnecting |-> "Connecting", ShardIdentifying |-> "Identifying",
     ShardConnected |-> "Connected", ShardResuming |-> "Resuming",
     ShardReconnecting |-> "Reconnecting", ShardDisconnected |-> "Disconnected"]

ShardLifecycle(shard_id, kind) ==
    /\ shard_states' = set_state(shard_states, shard_id, LifecycleState[kind])
    /\ ready' = ready_gauge(ready, shard_states[shard_id], LifecycleState[kind])
    /\ ev' = [kind |-> kind, shard |-> shard_id]
    /\ ret' = "Ok"
    /\ Quiet
    /\ UNCHANGED <<scheme_info, missing_per_shard, pending, chunkVars, guildVars>>
    /\ UNCHANGED extVars

\* As ReadyCommand, addressed to shard 0 whatever the shard.
ReadyCommandShardZero(shard_id) ==
    [shard |-> 0, afk |-> FALSE, activity |-> "the gears turn", status |-> "Online"]

\* Event::Ready: the UpdateStatus command handed to ctx.cluster.command.
ReadyCommand(shard_id) ==
    [shard |-> shard_id, afk |-> FALSE, activity |-> "the gears turn", status |-> "Online"]

\* Event::GatewayHello: the UpdateStatus command handed to ctx.cluster.command.
HelloCommand(shard_id) ==
    [shard |-> shard_id, afk |-> TRUE, activity |-> "things coming online", status |-> "Idle"]

\* ctx.cluster.command(..).await? : the command is sent, or the error is returned.
CommandResults == {"Ok", "CommandError"}

\* As CommandOutcome, with the error logged and dropped.
CommandOutcomeRecovered(sent) == "Ok"

\* The `?` after ctx.cluster.command(..).await: the handler returns the
\* command's error, and goes on to Ok(()) otherwise.
CommandOutcome(sent) == sent

Ready(shard_id, sent) ==
    /\ shard_states' = set_state(shard_states, shard_id, "Ready")
    /\ ready' = ready_gauge(ready, shard_states[shard_id], "Ready")
    /\ issued' = {ReadyCommand(shard_id)}
    /\ ret' = CommandOutcome(sent)
    /\ ev' = [kind |-> "Ready", shard |-> shard_id, sent |-> sent]
    /\ forwarded' = {}
    /\ UNCHANGED <<scheme_info, missing_per_shard, pending, chunkVars, guildVars>>
    /\ UNCHANGED extVars

GatewayHello(shard_id, sent) ==
    /\ issued' = {HelloCommand(shard_id)}
    /\ ret' = CommandOutcome(sent)
    /\ ev' = [kind |-> "GatewayHello", shard |-> shard_id, sent |-> sent]
    /\ forwarded' = {}
    /\ UNCHANGED <<shardVars, chunkVars, guildVars>>
    /\ UNCHANGED extVars

\* As InvalidateSession, with the test inverted.
InvalidateSessionInverted(recon) == IF recon THEN "InvalidSession" ELSE "Ok"

\* Event::GatewayInvalidateSession(recon): what handle_event returns.
InvalidateSession(recon) == IF recon THEN "Ok" ELSE "InvalidSession"

GatewayInvalidateSession(shard_id, recon) ==
    /\ ret' = InvalidateSession(recon)
    /\ ev' = [kind |-> "GatewayInvalidateSession", shard |-> shard_id, recon |-> recon]
    /\ Quiet
    /\ UNCHANGED <<shardVars, chunkVars, guildVars>>
    /\ UNCHANGED extVars

\* As LoggedOnly, with the presence update of the hello arm issued as well.
LoggedOnlyWithPresence(shard_id, kind) ==
    /\ ev' = [kind |-> kind, shard |-> shard_id]
    /\ ret' = "Ok"
    /\ forwarded' = {}
    /\ issued' = {HelloCommand(shard_id)}
    /\ UNCHANGED <<shardVars, chunkVars, guildVars>>
    /\ UNCHANGED extVars

\* Event::GatewayReconnect and Event::Resumed are logged only; any other kind
\* (a heartbeat acknowledgement, say) falls to the `_ => ()` arm.
LoggedOnly(shard_id, kind) ==
    /\ ev' = [kind |-> kind, shard |-> shard_id]
    /\ ret' = "Ok"
    /\ Quiet
    /\ UNCHANGED <<shardVars, chunkVars, guildVars>>
    /\ UNCHANGED extVars

\* ----------------------------------------------------- request correlator
\* design: register(nonce): a pending entry and a waiter suspended on its handle.
\* A nonce is unique per outstanding request: a fresh one is taken each time.
RequestMemberChunk(nonce) ==
    /\ waiter[nonce] = "none"
    /\ nonce \notin chunk_requests
    /\ chunk_requests' = chunk_requests \cup {nonce}
    /\ waiter' = [waiter EXCEPT ![nonce] = "waiting"]
    /\ ev' = [kind |-> "RequestMemberChunk", nonce |-> nonce]
    /\ ret' = "Ok"
    /\ Quiet
    /\ UNCHANGED <<got, shardVars, guildVars>>
    /\ UNCHANGED extVars

\* design: the caller's timeout fires: it gets a timeout error and its
\* receiving end is dropped.  The stale entry is removed by a later step.
WaiterTimeout(nonce) ==
    /\ waiter[nonce] = "waiting"
    /\ waiter' = [waiter EXCEPT ![nonce] = "timedout"]
    /\ ev' = [kind |-> "WaiterTimeout", nonce |-> nonce]
    /\ ret' = "Timeout"
    /\ Quiet
    /\ UNCHANGED <<chunk_requests, got, shardVars, guildVars>>
    /\ UNCHANGED extVars

\* design: the timed-out caller's best-effort removal of its entry (idempotent).
TimeoutCleanup(nonce) ==
    /\ waiter[nonce] = "timedout"
    /\ chunk_requests' = chunk_requests \ {nonce}
    /\ waiter' = [waiter EXCEPT ![nonce] = "cleaned"]
    /\ ev' = [kind |-> "TimeoutCleanup", nonce |-> nonce]
    /\ ret' = "Ok"
    /\ Quiet
    /\ UNCHANGED <<got, shardVars, guildVars>>
    /\ UNCHANGED extVars

\* Whether the receiving end of nonce's channel is still there.
ReceiverAlive(w, nonce) == w[nonce] = "waiting"

\* waiter.1.send(chunk).expect(..) on the sender taken out of the map: send
\* fails when the receiver is gone, and expect then panics.
SendChunk(n, payload, cr, w, g) ==
    IF ReceiverAlive(w, n)
    THEN [chunk_requests |-> cr,
          waiter |-> [w EXCEPT ![n] = "received"],
          got |-> [g EXCEPT ![n] = Append(@, payload)],
          ret |-> "Ok"]
    ELSE [chunk_requests |-> cr, waiter |-> w, got |-> g, ret |-> "Panic"]

\* As ResolveChunk, with the removed entry unwrapped instead of matched.
ResolveChunkUnwrap(nonce, payload, cr, w, g) ==
    IF nonce = None
    THEN [chunk_requests |-> cr, waiter |-> w, got |-> g, ret |-> "Ok"]
    ELSE IF Unwrap(nonce) \notin cr
         THEN [chunk_requests |-> cr, waiter |-> w, got |-> g, ret |-> "Panic"]
         ELSE SendChunk(Unwrap(nonce), payload, cr \ {Unwrap(nonce)}, w, g)

\* As ResolveChunk, with the whole map cleared instead of one entry removed.
ResolveChunkClear(nonce, payload, cr, w, g) ==
    IF nonce = None
    THEN [chunk_requests |-> cr, waiter |-> w, got |-> g, ret |-> "Ok"]
    ELSE IF Unwrap(nonce) \notin cr
         THEN [chunk_requests |-> cr, waiter |-> w, got |-> g, ret |-> "Ok"]
         ELSE SendChunk(Unwrap(nonce), payload, {}, w, g)

\* Event::MemberChunk in general.rs: match on chunk.nonce, then on
\* chunk_requests.remove(nonce); the entry is out of the map before the send.
ResolveChunk(nonce, payload, cr, w, g) ==
    IF nonce = None
    THEN [chunk_requests |-> cr, waiter |-> w, got |-> g, ret |-> "Ok"]
    ELSE IF Unwrap(nonce) \notin cr
         THEN [chunk_requests |-> cr, waiter |-> w, got |-> g, ret |-> "Ok"]
         ELSE SendChunk(Unwrap(nonce), payload, cr \ {Unwrap(nonce)}, w, g)

\* ------------------------------------------------- guild cache and tracker
\* design: "guild available": the guild is upserted as Loading, its counter reset.
TrackerReset(gs, guild_id, expected) ==
    [gs EXCEPT ![guild_id] = Some([complete |-> FALSE, counter |-> expected])]

\* As TrackerDecrement, promoting the guild on its first chunk.
TrackerDecrementEarly(gs, guild_id) ==
    IF gs[guild_id] = None \/ Unwrap(gs[guild_id]).counter = 0
    THEN gs
    ELSE [gs EXCEPT ![guild_id] =
            Some([complete |-> TRUE, counter |-> Unwrap(gs[guild_id]).counter - 1])]

\* As TrackerDecrement, with the flag recomputed on a late chunk as well.
TrackerDecrementLate(gs, guild_id) ==
    IF gs[guild_id] = None
    THEN gs
    ELSE IF Unwrap(gs[guild_id]).counter = 0
    THEN [gs EXCEPT ![guild_id] = Some([complete |-> FALSE, counter |-> 0])]
    ELSE [gs EXCEPT ![guild_id] =
            Some([complete |-> Unwrap(gs[guild_id]).counter - 1 = 0,
                  counter |-> Unwrap(gs[guild_id]).counter - 1])]

\* design: a member chunk of a guild decrements its outstanding counter; the
\* guild is promoted to Complete when the counter reaches zero (the last
\* expected chunk is the snapshot marker).  Late chunks of a complete guild
\* are merged without effect on the tracker.
TrackerDecrement(gs, guild_id) ==
    IF gs[guild_id] = None \/ Unwrap(gs[guild_id]).counter = 0
    THEN gs
    ELSE LET c == Unwrap(gs[guild_id]).counter - 1 IN
         [gs EXCEPT ![guild_id] =
            Some([complete |-> (c = 0) \/ Unwrap(gs[guild_id]).complete,
                  counter |-> c])]

\* is_guild_complete(id)
is_guild_complete(gs, guild_id) ==
    gs[guild_id] # None /\ Unwrap(gs[guild_id]).complete

GuildCreate(guild_id, expected) ==
    /\ guilds' = TrackerReset(guilds, guild_id, expected)
    /\ ev' = [kind |-> "GuildCreate", guild_id |-> guild_id, expected |-> expected]
    /\ ret' = "Ok"
    /\ Quiet
    /\ UNCHANGED <<shardVars, chunkVars>>
    /\ UNCHANGED extVars

\* design: "guild unavailable/removed": the guild is evicted.
GuildDelete(guild_id) ==
    /\ guilds[guild_id] # None
    /\ guilds' = [guilds EXCEPT ![guild_id] = None]
    /\ ev' = [kind |-> "GuildDelete", guild_id |-> guild_id]
    /\ ret' = "Ok"
    /\ Quiet
    /\ UNCHANGED <<shardVars, chunkVars>>
    /\ UNCHANGED extVars

\* A member-chunk event: the cache update, then general.rs's handler.
MemberChunk(guild_id, nonce, payload) ==
    LET r == ResolveChunk(nonce, payload, chunk_requests, waiter, got) IN
    /\ guilds' = TrackerDecrement(guilds, guild_id)
    /\ chunk_requests' = r.chunk_requests
    /\ waiter' = r.waiter
    /\ got' = r.got
    /\ ret' = r.ret
    /\ ev' = [kind |-> "MemberChunk", guild_id |-> guild_id, nonce |-> nonce,
              payload |-> payload]
    /\ Quiet
    /\ UNCHANGED shardVars
    /\ UNCHANGED extVars

\* ------------------------------------------------------- command handler
\* ctx.bot_user.id
BotUserId == 1

\* A string as the sequence of its characters.
Chars(id) == <<ToString(id)>>
\* format!("<@{}>", id) and format!("<@!{}>", id)
Mention1(id) == <<"<", "@">> \o Chars(id) \o <<">">>
Mention2(id) == <<"<", "@", "!">> \o Chars(id) \o <<">">>

\* str::starts_with
StartsWith(s, p) == Len(p) <= Len(s) /\ SubSeq(s, 1, Len(p)) = p

\* Guild prefixes a GuildConfig may hold, and message contents.
Prefixes == {<<"!">>, <<"?">>}
Contents ==
    {<<"!", "h">>, <<"?", "h">>, <<"h">>,
     Mention1(BotUserId) \o <<"h">>, Mention2(BotUserId) \o <<"h">>}

\* Message authors: the bot's own account is a bot account.
Authors ==
    {[id |-> BotUserId, bot |-> TRUE],
     [id |-> BotUserId + 1, bot |-> TRUE],
     [id |-> BotUserId + 1, bot |-> FALSE]}
Messages == [author : Authors, guild_id : Option(GuildIds), content : Contents]

\* ctx.get_config(guild_id).await? : the guild's configuration, or an error.
ConfigResults == {[ok |-> FALSE]} \cup {[ok |-> TRUE, prefix |-> p] : p \in Prefixes}
\* Parser::figure_it_out(..).await?
ParserResults == {"Ok", "CommandError"}

\* As GuildGate, without the test of the complete flag.
GuildGateKnownOnly(gs, guild_id) ==
    IF gs[guild_id] # None THEN "pass" ELSE "drop"

\* The completeness gate of commands.rs: the guild must be cached and complete.
GuildGate(gs, guild_id) ==
    IF gs[guild_id] # None
    THEN IF ~Unwrap(gs[guild_id]).complete THEN "drop" ELSE "pass"
    ELSE "drop"

\* The prefix the content is matched against, then the bot's two mentions.
MatchPrefix(content, p) ==
    IF StartsWith(content, p) THEN Some(p)
    ELSE IF StartsWith(content, Mention1(BotUserId)) THEN Some(Mention1(BotUserId))
    ELSE IF StartsWith(content, Mention2(BotUserId)) THEN Some(Mention2(BotUserId))
    ELSE None

\* As CommandPrefix, with "?" for a direct message.
CommandPrefixDmQuestion(msg, config) ==
    IF msg.guild_id # None THEN config.prefix ELSE <<"?">>

\* The prefix p of commands.rs: the guild's configured prefix, or "!" for a
\* message without a guild id.
CommandPrefix(msg, config) ==
    IF msg.guild_id # None THEN config.prefix ELSE <<"!">>

\* As IgnoredAuthor, ignoring the bot's own account only (is_own).
IgnoredAuthorOwn(msg) == msg.author.id = BotUserId

\* The guard of the match arm, `if !msg.author.bot`: whose messages are ignored.
IgnoredAuthor(msg) == msg.author.bot

\* commands.rs handle_event for Event::MessageCreate(msg): what it returns and
\* what it hands to the parser.
CommandsHandleEvent(msg, gs, config, parsed) ==
    IF IgnoredAuthor(msg)
    THEN [ret |-> "Ok", forwarded |-> {}]
    ELSE IF msg.guild_id # None /\ GuildGate(gs, Unwrap(msg.guild_id)) = "drop"
    THEN [ret |-> "Ok", forwarded |-> {}]
    ELSE IF msg.guild_id # None /\ ~config.ok
    THEN [ret |-> "ConfigError", forwarded |-> {}]
    ELSE LET p == CommandPrefix(msg, config)
             prefix == MatchPrefix(msg.content, p) IN
         IF prefix # None
         THEN [ret |-> parsed, forwarded |-> {[prefix |-> Unwrap(prefix), msg |-> msg]}]
         ELSE [ret |-> "Ok", forwarded |-> {}]

MessageCreate(msg, config, parsed) ==
    LET r == CommandsHandleEvent(msg, guilds, config, parsed) IN
    /\ ret' = r.ret
    /\ forwarded' = r.forwarded
    /\ issued' = {}
    /\ ev' = [kind |-> "MessageCreate", msg |-> msg]
    /\ UNCHANGED <<shardVars, chunkVars, guildVars>>
    /\ UNCHANGED extVars

\* ------------------------------------------------- CachedRole and serde
\* Attribute values of a role: name, color (u32), position (i64) and the
\* permission bits.
Names == {"admin", "everyone"}
Colors == {0, 255}
Positions == {-1, 0, 1}
PermissionBits == {0, 8}

\* struct CachedRole
CachedRoles ==
    [id : RoleIds, name : Names, color : Colors, hoisted : BOOLEAN,
     position : Positions, permissions : PermissionBits, managed : BOOLEAN,
     mentionable : BOOLEAN]

\* #[serde(rename = ..)]: the tag of each field, and the field of each tag.
Tag ==
    [id |-> "a", name |-> "b", color |-> "c", hoisted |-> "d", position |-> "e",
     permissions |-> "f", managed |-> "g", mentionable |-> "h"]
Field ==
    [a |-> "id", b |-> "name", c |-> "color", d |-> "hoisted", e |-> "position",
     f |-> "permissions", g |-> "managed", h |-> "mentionable"]
Tags == DOMAIN Field

\* The fields carrying #[serde(default, skip_serializing_if = "is_default")],
\* with Default::default() of their types, and the tags of the others.
Default ==
    [color |-> 0, hoisted |-> FALSE, position |-> 0, managed |-> FALSE,
     mentionable |-> FALSE]
RequiredTags == {Tag[f] : f \in DOMAIN Tag \ DOMAIN Default}

\* design: is_default of the cache module: the value is its type's default.
is_default(field, v) == v = Default[field]

\* As SerializeRole, with the permissions skipped when empty as well.
SerializeRoleSkipEmpty(r) ==
    LET kept == {t \in Tags :
                   IF Field[t] \in DOMAIN Default
                   THEN ~is_default(Field[t], r[Field[t]])
                   ELSE t # "f" \/ r.permissions # 0} IN
    [t \in kept |-> r[Field[t]]]

\* #[derive(Serialize)] of CachedRole: a map from tag to value, without the
\* fields whose skip_serializing_if holds.
SerializeRole(r) ==
    LET kept == {t \in Tags :
                   Field[t] \in DOMAIN Default => ~is_default(Field[t], r[Field[t]])} IN
    [t \in kept |-> r[Field[t]]]

\* As DeserializeRole, with the color required (no `default` on the field).
DeserializeRoleColorRequired(w) ==
    IF RequiredTags \cup {"c"} \subseteq DOMAIN w
    THEN Some([f \in DOMAIN Tag |-> IF Tag[f] \in DOMAIN w THEN w[Tag[f]] ELSE Default[f]])
    ELSE None

\* As DeserializeRole, with every field defaulted when absent.
DeserializeRoleLenient(w) ==
    Some([id |-> IF "a" \in DOMAIN w THEN w.a ELSE 0,
          name |-> IF "b" \in DOMAIN w THEN w.b ELSE "",
          color |-> IF "c" \in DOMAIN w THEN w.c ELSE 0,
          hoisted |-> IF "d" \in DOMAIN w THEN w.d ELSE FALSE,
          position |-> IF "e" \in DOMAIN w THEN w.e ELSE 0,
          permissions |-> IF "f" \in DOMAIN w THEN w.f ELSE 0,
          managed |-> IF "g" \in DOMAIN w THEN w.g ELSE FALSE,
          mentionable |-> IF "h" \in DOMAIN w THEN w.h ELSE FALSE])

\* #[derive(Deserialize)] of CachedRole: an absent field is an error unless
\* it carries `default`.  None stands for the error.
DeserializeRole(w) ==
    IF RequiredTags \subseteq DOMAIN w
    THEN Some([f \in DOMAIN Tag |-> IF Tag[f] \in DOMAIN w THEN w[Tag[f]] ELSE Default[f]])
    ELSE None

\* design: the resume triple of a shard and its serialized form, the fields
\* in the order of the persisted layout.
ResumeTriples ==
    [endpoint : {"wss://gateway"}, session : {"s1", "s2"},
     sequence : 0..MaxSequence]
SerializeResume(t) == [endpoint |-> t.endpoint, session |-> t.session, sequence |-> t.sequence]
DeserializeResume(w) ==
    IF {"endpoint", "session", "sequence"} \subseteq DOMAIN w
    THEN Some([endpoint |-> w.endpoint, session |-> w.session, sequence |-> w.sequence])
    ELSE None

\* The serializer is handed a cached role or a shard's resume triple.
TakeRole(r) ==
    /\ subject = None
    /\ subject' = Some(r)
    /\ ev' = [kind |-> "TakeRole"]
    /\ ret' = "Ok"
    /\ Quiet
    /\ UNCHANGED <<shardVars, chunkVars, guildVars, roleVars, resumeVars, wire, back>>
    /\ UNCHANGED statsVars

TakeResume(t) ==
    /\ subject = None
    /\ subject' = Some(t)
    /\ ev' = [kind |-> "TakeResume"]
    /\ ret' = "Ok"
    /\ Quiet
    /\ UNCHANGED <<shardVars, chunkVars, guildVars, roleVars, resumeVars, wire, back>>
    /\ UNCHANGED statsVars

\* serde_json::to_string of the subject.
Serialize ==
    /\ subject # None
    /\ wire = None
    /\ wire' = Some(IF Unwrap(subject) \in CachedRoles
                    THEN SerializeRole(Unwrap(subject))
                    ELSE SerializeResume(Unwrap(subject)))
    /\ ev' = [kind |-> "Serialize"]
    /\ ret' = "Ok"
    /\ Quiet
    /\ UNCHANGED <<shardVars, chunkVars, guildVars, roleVars, resumeVars, subject, back>>
    /\ UNCHANGED statsVars

\* A record written without one of its fields (by another version of the
\* format, say): the field's tag is absent from the serialized form.
FieldAbsent(t) ==
    /\ wire # None
    /\ back = None
    /\ t \in DOMAIN Unwrap(wire)
    /\ wire' = Some([u \in DOMAIN Unwrap(wire) \ {t} |-> Unwrap(wire)[u]])
    /\ ev' = [kind |-> "FieldAbsent", tag |-> t]
    /\ ret' = "Ok"
    /\ Quiet
    /\ UNCHANGED <<shardVars, chunkVars, guildVars, roleVars, resumeVars, subject, back>>
    /\ UNCHANGED statsVars

\* serde_json::from_str of the serialized form; back holds the Result.
Deserialize ==
    /\ wire # None
    /\ back = None
    /\ LET r == IF Unwrap(subject) \in CachedRoles
                THEN DeserializeRole(Unwrap(wire))
                ELSE DeserializeResume(Unwrap(wire)) IN
       /\ back' = Some(r)
       /\ ret' = IF r = None THEN "DeserializeError" ELSE "Ok"
    /\ ev' = [kind |-> "Deserialize"]
    /\ Quiet
    /\ UNCHANGED <<shardVars, chunkVars, guildVars, roleVars, resumeVars, subject, wire>>
    /\ UNCHANGED statsVars

SerdeNext ==
    \/ \E r \in CachedRoles : TakeRole(r)
    \/ \E t \in ResumeTriples : TakeResume(t)
    \/ Serialize
    \/ \E t \in Tags \cup {"endpoint", "session", "sequence"} : FieldAbsent(t)
    \/ Deserialize

\* ------------------------------------------------------------ role cache
\* Roles as the gateway's role events carry them (twilight's Role): one with
\* every attribute at its default, one with none, one in between.
RoleShapes ==
    {[name |-> "everyone", color |-> 0, hoist |-> FALSE, position |-> 0,
      permissions |-> 0, managed |-> FALSE, mentionable |-> FALSE],
     [name |-> "admin", color |-> 255, hoist |-> TRUE, position |-> 1,
      permissions |-> 8, managed |-> TRUE, mentionable |-> TRUE],
     [name |-> "admin", color |-> 255, hoist |-> FALSE, position |-> -1,
      permissions |-> 8, managed |-> TRUE, mentionable |-> FALSE]}
GatewayRoles ==
    {[id |-> id, name |-> sh.name, color |-> sh.color, hoist |-> sh.hoist,
      position |-> sh.position, permissions |-> sh.permissions,
      managed |-> sh.managed, mentionable |-> sh.mentionable] :
        id \in RoleIds, sh \in RoleShapes}

\* As from_role, with the hoist flag taken from the managed flag.
from_role_hoist_managed(role) ==
    [id |-> role.id, name |-> role.name, color |-> role.color,
     hoisted |-> role.managed, position |-> role.position,
     permissions |-> role.permissions, managed |-> role.managed,
     mentionable |-> role.mentionable]

\* impl From<Role> for CachedRole
from_role(role) ==
    [id |-> role.id, name |-> role.name, color |-> role.color,
     hoisted |-> role.hoist, position |-> role.position,
     permissions |-> role.permissions, managed |-> role.managed,
     mentionable |-> role.mentionable]

\* As from_guard, with the mentionable flag taken from the managed flag.
from_guard_mentionable_managed(g) ==
    [id |-> g.id, name |-> g.name, color |-> g.color, hoisted |-> g.hoisted,
     position |-> g.position, permissions |-> g.permissions,
     managed |-> g.managed, mentionable |-> g.managed]

\* impl From<ElementGuard<RoleId, Arc<CachedRole>>> for CachedRole
from_guard(g) ==
    [id |-> g.id, name |-> g.name, color |-> g.color, hoisted |-> g.hoisted,
     position |-> g.position, permissions |-> g.permissions,
     managed |-> g.managed, mentionable |-> g.mentionable]

\* design: role create/update: the cache's entry of the role's id is replaced
\* by a new Arc<CachedRole> built from the event's role.
RoleUpsert(role) ==
    /\ roles' = [roles EXCEPT ![role.id] = Some(from_role(role))]
    /\ ev' = [kind |-> IF roles[role.id] = None THEN "RoleCreate" ELSE "RoleUpdate",
              role |-> role]
    /\ ret' = "Ok"
    /\ Quiet
    /\ UNCHANGED <<shardVars, chunkVars, guildVars, guard, held, serdeVars, resumeVars>>
    /\ UNCHANGED statsVars

\* design: role delete: the entry is removed.
RoleDelete(id) ==
    /\ roles' = [roles EXCEPT ![id] = None]
    /\ ev' = [kind |-> "RoleDelete", id |-> id]
    /\ ret' = "Ok"
    /\ Quiet
    /\ UNCHANGED <<shardVars, chunkVars, guildVars, guard, held, serdeVars, resumeVars>>
    /\ UNCHANGED statsVars

\* design: a reader's get(id): it is handed the map's guard (the Arc stored
\* under id, if any) and builds its own CachedRole from it.
GetRole(id) ==
    /\ guard' = roles[id]
    /\ held' = IF roles[id] = None THEN None ELSE Some(from_guard(Unwrap(roles[id])))
    /\ ev' = [kind |-> "GetRole", id |-> id]
    /\ ret' = "Ok"
    /\ Quiet
    /\ UNCHANGED <<shardVars, chunkVars, guildVars, roles, serdeVars, resumeVars>>
    /\ UNCHANGED statsVars

CacheNext ==
    \/ \E role \in GatewayRoles : RoleUpsert(role)
    \/ \E id \in RoleIds : RoleDelete(id)
    \/ \E id \in RoleIds : GetRole(id)

\* ----------------------------------------------------------- cold resume
\* The serialized forms of the roles the gateway's events bring.
CachedRoleRecords == {SerializeRole(from_role(role)) : role \in GatewayRoles}

\* design: the version tag the running code writes and accepts, and another.
SnapshotVersion == "v1"
Versions == {SnapshotVersion, "v0"}

\* The process runs once its shards have been started.
Running == \A t \in DOMAIN boot : boot[t] # "none"
Stopped == \A t \in DOMAIN boot : boot[t] = "none"

\* design: the snapshot written on shutdown: version tag, the resume triple of
\* each shard that has one, the serialized entities of the cache.
WriteSnapshot(rs, ss) ==
    [version |-> SnapshotVersion,
     shards |-> [t \in {u \in DOMAIN ss : ss[u] # None} |->
                    SerializeResume(Unwrap(ss[t]))],
     entities |-> {SerializeRole(Unwrap(rs[id])) : id \in {i \in RoleIds : rs[i] # None}}]

\* design: reading the stored snapshot: nothing when there is none, when its
\* version is not the accepted one, or when one of its records fails to
\* deserialize; else the cache contents and the resume triples it holds.
ReadSnapshot(st, shards) ==
    IF st = None THEN None
    ELSE LET snap == Unwrap(st) IN
         IF \/ snap.version # SnapshotVersion
            \/ \E w \in snap.entities : DeserializeRole(w) = None
            \/ \E t \in DOMAIN snap.shards : DeserializeResume(snap.shards[t]) = None
         THEN None
         ELSE LET loaded == {Unwrap(DeserializeRole(w)) : w \in snap.entities} IN
              Some([roles |-> [id \in RoleIds |-> {e \in loaded : e.id = id}],
                    sessions |-> [t \in shards |->
                                    IF t \in DOMAIN snap.shards
                                    THEN DeserializeResume(snap.shards[t])
                                    ELSE None]])

\* design: startup.  With a readable snapshot the cache is pre-populated and
\* the shards that have a resume triple resume; otherwise every shard does a
\* cold identify.  Neither is an error.  The snapshot is taken out of the store.
Startup ==
    /\ Stopped
    /\ LET loaded == ReadSnapshot(store, DOMAIN boot) IN
       IF loaded = None
       THEN /\ boot' = [t \in DOMAIN boot |-> "identify"]
            /\ roles' = [id \in RoleIds |-> None]
            /\ sessions' = [t \in DOMAIN boot |-> None]
       ELSE /\ boot' = [t \in DOMAIN boot |->
                          IF Unwrap(loaded).sessions[t] # None THEN "resume" ELSE "identify"]
            /\ roles' = Unwrap(loaded).roles
            /\ sessions' = Unwrap(loaded).sessions
    /\ store' = None
    /\ ev' = [kind |-> "Startup", snapshot |-> store]
    /\ ret' = "Ok"
    /\ Quiet
    /\ UNCHANGED <<shardVars, chunkVars, guildVars, guard, held, serdeVars>>
    /\ UNCHANGED statsVars

\* design: a started shard has a session: its resume triple is kept.
SessionEstablished(t, triple) ==
    /\ Running
    /\ sessions' = [sessions EXCEPT ![t] = Some(triple)]
    /\ ev' = [kind |-> "SessionEstablished", shard |-> t]
    /\ ret' = "Ok"
    /\ Quiet
    /\ UNCHANGED <<shardVars, chunkVars, guildVars, roleVars, serdeVars, store, boot>>
    /\ UNCHANGED statsVars

\* A role event while the process runs.
RunningRoleUpsert(role) == Running /\ RoleUpsert(role)

\* design: shutdown: the cache and the triples are written to the store and
\* the process ends.
Shutdown ==
    /\ Running
    /\ store' = Some(WriteSnapshot(roles, sessions))
    /\ boot' = [t \in DOMAIN boot |-> "none"]
    /\ roles' = [id \in RoleIds |-> None]
    /\ sessions' = [t \in DOMAIN boot |-> None]
    /\ ev' = [kind |-> "Shutdown"]
    /\ ret' = "Ok"
    /\ Quiet
    /\ UNCHANGED <<shardVars, chunkVars, guildVars, guard, held, serdeVars>>
    /\ UNCHANGED statsVars

\* What can happen to a stored snapshot before it is read: it was written by
\* another version, it was corrupted (a record lost a field it cannot be read
\* without), or it expired.  One such damage per snapshot is followed.
SnapshotOtherVersion(v) ==
    /\ ev.kind = "Shutdown"
    /\ v # Unwrap(store).version
    /\ store' = Some([Unwrap(store) EXCEPT !.version = v])
    /\ ev' = [kind |-> "SnapshotOtherVersion"]
    /\ ret' = "Ok"
    /\ Quiet
    /\ UNCHANGED <<shardVars, chunkVars, guildVars, roleVars, serdeVars, boot, sessions>>
    /\ UNCHANGED statsVars

SnapshotEntityFieldLost(w, tag) ==
    /\ ev.kind = "Shutdown"
    /\ w \in Unwrap(store).entities
    /\ tag \in DOMAIN w
    /\ store' = Some([Unwrap(store) EXCEPT !.entities =
                        (@ \ {w}) \cup {[u \in DOMAIN w \ {tag} |-> w[u]]}])
    /\ ev' = [kind |-> "SnapshotEntityFieldLost"]
    /\ ret' = "Ok"
    /\ Quiet
    /\ UNCHANGED <<shardVars, chunkVars, guildVars, roleVars, serdeVars, boot, sessions>>
    /\ UNCHANGED statsVars

SnapshotShardFieldLost(t, field) ==
    /\ ev.kind = "Shutdown"
    /\ t \in DOMAIN Unwrap(store).shards
    /\ store' = Some([Unwrap(store) EXCEPT !.shards[t] =
                        [u \in DOMAIN @ \ {field} |-> @[u]]])
    /\ ev' = [kind |-> "SnapshotShardFieldLost"]
    /\ ret' = "Ok"
    /\ Quiet
    /\ UNCHANGED <<shardVars, chunkVars, guildVars, roleVars, serdeVars, boot, sessions>>
    /\ UNCHANGED statsVars

SnapshotExpired ==
    /\ Stopped
    /\ store # None
    /\ store' = None
    /\ ev' = [kind |-> "SnapshotExpired"]
    /\ ret' = "Ok"
    /\ Quiet
    /\ UNCHANGED <<shardVars, chunkVars, guildVars, roleVars, serdeVars, boot, sessions>>
    /\ UNCHANGED statsVars

ResumeNext ==
    \/ Startup
    \/ \E t \in DOMAIN boot, triple \in ResumeTriples : SessionEstablished(t, triple)
    \/ \E role \in GatewayRoles : RunningRoleUpsert(role)
    \/ Shutdown
    \/ \E v \in Versions : SnapshotOtherVersion(v)
    \/ \E w \in CachedRoleRecords, tag \in RequiredTags : SnapshotEntityFieldLost(w, tag)
    \/ \E t \in DOMAIN boot, field \in {"endpoint", "session", "sequence"} :
            SnapshotShardFieldLost(t, field)
    \/ SnapshotExpired

\* -------------------------------------------------------------- BotStats
\* AtomicUsize: fetch_add and fetch_sub wrap around at the width of usize.
UsizeModulus == 2 ^ UsizeBits
fetch_add(x) == (x + 1) % UsizeModulus
fetch_sub(x) == (x - 1) % UsizeModulus

\* As is_own, true of every message.
is_own_always(other) == TRUE

\* BotContext::is_own: the message's author is the bot's user.
is_own(other) == other.author.id = BotUserId

\* The messages new_message is called with: only the author is read.
StatsMessages == [author : Authors]

\* The calls of a counter group that have been made so far.
MessageCalls == calls.user + calls.bot + Cardinality({c \in Callers : callers[c] # None})
GuildCalls == calls.new_guild + calls.left_guild

\* A call of new_message that has returned, counted by what its message is.
CountMessage(cs, msg) ==
    [cs EXCEPT !.user = IF msg.author.bot THEN @ ELSE @ + 1,
               !.bot = IF msg.author.bot THEN @ + 1 ELSE @,
               !.own = IF msg.author.bot /\ msg.author.id = BotUserId THEN @ + 1 ELSE @]

\* BotStats::new_message up to and including its first fetch_add.  For the
\* bot's own message that is the one on my_messages, and the call goes on;
\* for any other message it is the only one, and the call returns.
NewMessage(c, msg) ==
    /\ callers[c] = None
    /\ MessageCalls < MaxCalls
    /\ IF msg.author.bot
       THEN IF is_own(msg)
            THEN /\ my_messages' = fetch_add(my_messages)
                 /\ callers' = [callers EXCEPT ![c] = Some(msg)]
                 /\ UNCHANGED <<user_messages, bot_messages, calls>>
            ELSE /\ bot_messages' = fetch_add(bot_messages)
                 /\ calls' = CountMessage(calls, msg)
                 /\ UNCHANGED <<user_messages, my_messages, callers>>
       ELSE /\ user_messages' = fetch_add(user_messages)
            /\ calls' = CountMessage(calls, msg)
            /\ UNCHANGED <<bot_messages, my_messages, callers>>
    /\ ev' = [kind |-> "new_message", caller |-> c, msg |-> msg]
    /\ ret' = "Ok"
    /\ Quiet
    /\ UNCHANGED <<shardVars, chunkVars, guildVars, roleVars, serdeVars, resumeVars, guild_count>>

\* new_message for the bot's own message, second fetch_add: bot_messages.
NewMessageBotAdd(c) ==
    /\ callers[c] # None
    /\ bot_messages' = fetch_add(bot_messages)
    /\ callers' = [callers EXCEPT ![c] = None]
    /\ calls' = CountMessage(calls, Unwrap(callers[c]))
    /\ ev' = [kind |-> "new_message_returned", caller |-> c, msg |-> Unwrap(callers[c])]
    /\ ret' = "Ok"
    /\ Quiet
    /\ UNCHANGED <<shardVars, chunkVars, guildVars, roleVars, serdeVars, resumeVars,
                   user_messages, my_messages, guild_count>>

\* BotStats::new_guild
NewGuild ==
    /\ GuildCalls < MaxCalls
    /\ guild_count' = fetch_add(guild_count)
    /\ calls' = [calls EXCEPT !.new_guild = @ + 1]
    /\ ev' = [kind |-> "new_guild"]
    /\ ret' = "Ok"
    /\ Quiet
    /\ UNCHANGED <<shardVars, chunkVars, guildVars, roleVars, serdeVars, resumeVars,
                   user_messages, bot_messages, my_messages, callers>>

\* BotStats::left_guild
LeftGuild ==
    /\ GuildCalls < MaxCalls
    /\ guild_count' = fetch_sub(guild_count)
    /\ calls' = [calls EXCEPT !.left_guild = @ + 1]
    /\ ev' = [kind |-> "left_guild"]
    /\ ret' = "Ok"
    /\ Quiet
    /\ UNCHANGED <<shardVars, chunkVars, guildVars, roleVars, serdeVars, resumeVars,
                   user_messages, bot_messages, my_messages, callers>>

StatsNext ==
    \/ \E c \in Callers, msg \in StatsMessages : NewMessage(c, msg)
    \/ \E c \in Callers : NewMessageBotAdd(c)
    \/ NewGuild
    \/ LeftGuild

GuildNext ==
    \/ \E guild_id \in GuildIds, expected \in 1..MaxExpected :
            GuildCreate(guild_id, expected)
    \/ \E guild_id \in GuildIds : GuildDelete(guild_id)
    \/ \E guild_id \in GuildIds, nonce \in Option(Nonces), payload \in Payloads :
            MemberChunk(guild_id, nonce, payload)
    \/ \E msg \in Messages, config \in ConfigResults, parsed \in ParserResults :
            MessageCreate(msg, config, parsed)

ChunkNext ==
    \/ \E nonce \in Nonces : RequestMemberChunk(nonce)
    \/ \E nonce \in Nonces : WaiterTimeout(nonce)
    \/ \E nonce \in Nonces : TimeoutCleanup(nonce)
    \/ \E guild_id \in GuildIds, nonce \in Option(Nonces), payload \in Payloads :
            MemberChunk(guild_id, nonce, payload)

\* Event kinds of general.rs with no effect: two logged, one without an arm.
UnlistedKinds == {"GatewayReconnect", "Resumed", "GatewayHeartbeatAck"}

ShardNext ==
    \E shard_id \in ClusterShards :
        \/ \E kind \in DOMAIN LifecycleState : ShardLifecycle(shard_id, kind)
        \/ \E sent \in CommandResults : Ready(shard_id, sent)
        \/ \E sent \in CommandResults : GatewayHello(shard_id, sent)
        \/ \E recon \in BOOLEAN : GatewayInvalidateSession(shard_id, recon)
        \/ \E kind \in UnlistedKinds : LoggedOnly(shard_id, kind)

\* The three components keep disjoint state: only the member-chunk event
\* touches two of them (the correlator and the tracker), and it is a step of
\* both of their specifications.

\* The shard table and the per-shard events.
SpecShard == Init /\ [][ShardNext]_vars

\* The other components do not read the sharding scheme: one is fixed for them.
InitOneShard == Init /\ scheme_info = [cluster_id |-> 0, shards_per_cluster |-> 1]

\* The request correlator and the member-chunk event.
SpecChunk == InitOneShard /\ [][ChunkNext]_vars

\* The guild cache, the completeness tracker and the command handler.
SpecGuild == InitOneShard /\ [][GuildNext]_vars

\* Serialization of a cached role and of a resume triple, and back.
SpecSerde == InitOneShard /\ [][SerdeNext]_vars

\* The role cache and one reader of it.
SpecCache == InitOneShard /\ [][CacheNext]_vars

\* The counters of BotStats under concurrent callers.
SpecStats == InitOneShard /\ [][StatsNext]_vars

\* Shutdown and startup of a cluster of two shards.
InitTwoShards == Init /\ scheme_info = [cluster_id |-> 1, shards_per_cluster |-> 2]
SpecResume == InitTwoShards /\ [][ResumeNext]_vars

Next == ShardNext \/ ChunkNext \/ GuildNext \/ SerdeNext \/ CacheNext \/ ResumeNext \/ StatsNext

Spec == Init /\ [][Next]_vars

\* ---------------------------------------------------------------- claims
Known(gs, g) == gs[g] # None
Counter(gs, g) == Unwrap(gs[g]).counter
IsChunkFor(e, n) == e.kind = "MemberChunk" /\ e.nonce = Some(n)

\* C1: a message-create event carrying a guild id reaches the command pipeline
\* only if the guild is cached and complete when the event is handled;
\* otherwise the handler returns success, forwards nothing, issues nothing and
\* changes no state.
C1_CompletenessGate ==
    [][(ev'.kind = "MessageCreate" /\ ev'.msg.guild_id # None) =>
         /\ forwarded' # {} => is_guild_complete(guilds, Unwrap(ev'.msg.guild_id))
         /\ ~is_guild_complete(guilds, Unwrap(ev'.msg.guild_id)) =>
                /\ ret' = "Ok"
                /\ forwarded' = {}
                /\ issued' = {}
                /\ UNCHANGED <<shardVars, chunkVars, guildVars>>]_vars

\* A human's command for a cached guild that is still loading has been dropped.
C1_Witness ==
    /\ ev.kind = "MessageCreate"
    /\ ~ev.msg.author.bot
    /\ ev.msg.guild_id # None
    /\ ev.msg.content = <<"!", "h">>
    /\ Known(guilds, Unwrap(ev.msg.guild_id))
    /\ ~is_guild_complete(guilds, Unwrap(ev.msg.guild_id))
    /\ forwarded = {}
    /\ ret = "Ok"

\* C2: a member chunk with nonce n handled while an entry for n exists removes
\* the entry and delivers the chunk to that entry's waiter exactly once; a
\* chunk with nonce n handled while no entry exists delivers nothing.
C2_DeliveredExactlyOnce ==
    [][\A n \in Nonces : IsChunkFor(ev', n) =>
         IF n \in chunk_requests
         THEN /\ n \notin chunk_requests'
              /\ got'[n] = Append(got[n], ev'.payload)
              /\ Len(got'[n]) = 1
         ELSE got' = got]_vars

\* C3: once the waiter of nonce n has timed out (the caller got a timeout
\* error), a chunk with nonce n is ignored: the handler returns success and
\* delivers nothing, whether or not the stale entry was removed.
C3_LateChunkIgnored ==
    [][\A n \in Nonces :
         /\ (ev'.kind = "WaiterTimeout" /\ ev'.nonce = n) => ret' = "Timeout"
         /\ (IsChunkFor(ev', n) /\ waiter[n] \in {"timedout", "cleaned"}) =>
                ret' = "Ok" /\ got' = got]_vars

\* C4: a member chunk with no nonce, or with a nonce that has no pending entry,
\* leaves the pending requests unchanged, delivers nothing and returns success.
C4_UnknownNonceNoOp ==
    [][(ev'.kind = "MemberChunk"
          /\ (ev'.nonce = None \/ Unwrap(ev'.nonce) \notin chunk_requests)) =>
         /\ chunk_requests' = chunk_requests
         /\ waiter' = waiter
         /\ got' = got
         /\ ret' = "Ok"]_vars

\* A late chunk for a request whose caller timed out and removed its entry.
C4_Witness ==
    /\ ev.kind = "MemberChunk"
    /\ ev.nonce # None
    /\ waiter[Unwrap(ev.nonce)] = "cleaned"
    /\ got[Unwrap(ev.nonce)] = <<>>
    /\ ret = "Ok"
    /\ \E n \in Nonces : n \in chunk_requests /\ waiter[n] = "waiting"

\* C5: between a waiter's timeout and a resolve for the same nonce the first
\* wins: a resolve that finds the waiter waiting delivers the payload and
\* removes the entry; a resolve that comes after the timeout is a no-op
\* (success, nothing delivered); the cleanup leaves no entry and delivers nothing.
C5_FirstWins ==
    [][\A n \in Nonces :
         /\ IsChunkFor(ev', n) =>
                IF waiter[n] = "waiting"
                THEN /\ got'[n] = <<ev'.payload>>
                     /\ n \notin chunk_requests'
                     /\ ret' = "Ok"
                ELSE /\ got' = got
                     /\ waiter' = waiter
                     /\ n \notin chunk_requests'
                     /\ ret' = "Ok"
         /\ (ev'.kind = "TimeoutCleanup" /\ ev'.nonce = n) =>
                n \notin chunk_requests' /\ got' = got]_vars

\* C6: after construction the shard table holds exactly the owned shard ids,
\* each in PendingCreation, and its key set stays that set ever after.
C6_OwnedShardsOnly ==
    LET lo == scheme_info.cluster_id * scheme_info.shards_per_cluster
        hi == lo + scheme_info.shards_per_cluster - 1
    IN /\ \A i \in DOMAIN shard_states : lo <= i /\ i <= hi
       /\ \A i \in lo..hi : i \in DOMAIN shard_states
       /\ ev.kind = "New" => \A i \in DOMAIN shard_states : shard_states[i] = "PendingCreation"

\* The second cluster's two shards, after events have moved both.
C6_Witness ==
    /\ scheme_info = [cluster_id |-> 1, shards_per_cluster |-> 2]
    /\ DOMAIN shard_states = {2, 3}
    /\ shard_states[2] = "Ready"
    /\ shard_states[3] = "Disconnected"

\* C7: handling a session invalidation returns InvalidSession exactly when the
\* event is not resumable; a resumable one returns success.
C7_InvalidSessionIffNotResumable ==
    ev.kind = "GatewayInvalidateSession" =>
        /\ (ret = "InvalidSession") <=> ~ev.recon
        /\ ev.recon => ret = "Ok"

\* A non-resumable invalidation has been surfaced.
C7_Witness ==
    ev.kind = "GatewayInvalidateSession" /\ ~ev.recon /\ ret = "InvalidSession"

\* C8: a guild's complete flag goes back from true to false only by a fresh
\* guild-available event for that guild (within an availability period it goes
\* false -> true at most once and never back).
C8_CompleteMonotonic ==
    [][\A g \in GuildIds :
         (is_guild_complete(guilds, g) /\ Known(guilds', g)
            /\ ~is_guild_complete(guilds', g)) =>
         (ev'.kind = "GuildCreate" /\ ev'.guild_id = g)]_vars

\* A late chunk with a nonce has been merged into a guild that stays complete.
C8_Witness ==
    /\ ev.kind = "MemberChunk"
    /\ ev.nonce # None
    /\ is_guild_complete(guilds, ev.guild_id)

get_state(table, shard_id) == table[shard_id]

\* The state the dispatch table names for each lifecycle event of the claim.
C11_StateOf ==
    [ShardConnecting |-> "Connecting", ShardIdentifying |-> "Identifying",
     ShardResuming |-> "Resuming", ShardReconnecting |-> "Reconnecting",
     ShardDisconnected |-> "Disconnected"]

C12_ReadyShards == Cardinality({t \in DOMAIN shard_states : shard_states[t] = "Ready"})

\* C12: the ready-shard gauge equals the number of shards in Ready in every
\* state, so it goes up by one exactly on a transition into Ready, down by one
\* exactly on a transition out of Ready and stays on a repeated set_state.
C12_GaugeCountsReadyShards == ready = C12_ReadyShards

\* One shard has left Ready while the other is still Ready.
C12_Witness ==
    /\ ev.kind = "ShardDisconnected"
    /\ shard_states[ev.shard] = "Disconnected"
    /\ ready = 1
    /\ \E t \in DOMAIN shard_states : t # ev.shard /\ shard_states[t] = "Ready"

\* What handling an event without effect leaves alone.
C18_NoEffect ==
    /\ UNCHANGED <<shardVars, chunkVars, guildVars>>
    /\ issued' = {}
    /\ forwarded' = {}
    /\ ret' = "Ok"

\* C18 as stated: an event of a kind outside the dispatch table, the gateway
\* hello included, changes nothing, issues no command and returns success.
C18_UnlistedKindNoOp ==
    [][ev'.kind \in UnlistedKinds \cup {"GatewayHello"} => C18_NoEffect]_vars

\* C18, amended: an event that is only logged or has no arm changes nothing,
\* issues no command and returns success; a gateway hello changes no state
\* either, but issues the idle presence update to its own shard and returns
\* the error of that command when it fails.
C18_UnlistedNoOpHelloPresence ==
    [][/\ ev'.kind \in UnlistedKinds => C18_NoEffect
       /\ ev'.kind = "GatewayHello" =>
            /\ UNCHANGED <<shardVars, chunkVars, guildVars>>
            /\ forwarded' = {}
            /\ issued' = {HelloCommand(ev'.shard)}
            /\ ret' \in {"Ok", "CommandError"}]_vars

\* A hello was handled on shard 3 while it was identifying: its presence
\* update was issued and failed.
C18_Witness ==
    /\ ev.kind = "GatewayHello"
    /\ ev.shard = 3
    /\ shard_states[3] = "Identifying"
    /\ issued = {HelloCommand(3)}
    /\ ret = "CommandError"

\* The nonce whose pending request a step resolves or cancels, if any.
C19_Touched(e) ==
    IF e.kind = "MemberChunk" THEN e.nonce
    ELSE IF e.kind \in {"WaiterTimeout", "TimeoutCleanup"} THEN Some(e.nonce)
    ELSE None

\* C19: a step that resolves the pending request of nonce n, or cancels it by
\* timeout (the timeout itself and the removal of the stale entry), leaves
\* the entry, the waiter and the deliveries of every other nonce as they
\* were; another entry that was pending is still pending, and a chunk
\* carrying its nonce would still be delivered to its waiter.
C19_OtherNoncesUntouched ==
    [][\A n \in C19_Touched(ev') : \A m \in Nonces \ {n} :
          /\ (m \in chunk_requests') = (m \in chunk_requests)
          /\ waiter'[m] = waiter[m]
          /\ got'[m] = got[m]
          /\ (m \in chunk_requests /\ ReceiverAlive(waiter, m)) =>
                \A p \in Payloads :
                    LET r == ResolveChunk(Some(m), p, chunk_requests', waiter', got') IN
                    /\ r.ret = "Ok"
                    /\ r.got[m] = Append(got[m], p)
                    /\ m \notin r.chunk_requests]_vars

\* The request of nonce 1 was resolved while the one of nonce 2 is pending.
C19_Witness ==
    /\ ev.kind = "MemberChunk"
    /\ ev.nonce = Some(1)
    /\ got[1] = <<ev.payload>>
    /\ 1 \notin chunk_requests
    /\ 2 \in chunk_requests
    /\ waiter[2] = "waiting"
    /\ got[2] = <<>>

\* The bot's two mentions, and whether a content begins with one of them.
C16_Mentions == {Mention1(BotUserId), Mention2(BotUserId)}
C16_Mentioned(msg) == \E m \in C16_Mentions : StartsWith(msg.content, m)

\* A message-create step for a guild that is cached and complete.
C16_InCompleteGuild(e, gs) ==
    /\ e.kind = "MessageCreate"
    /\ e.msg.guild_id # None
    /\ is_guild_complete(gs, Unwrap(e.msg.guild_id))

\* C16 as stated, in its most favourable case (the content begins with a
\* mention of the bot and the guild's configuration loads): a message in a
\* known, complete guild whose author is not the bot's own user is passed to
\* the command pipeline.
C16_OnlyOwnMessagesFiltered ==
    [][(/\ C16_InCompleteGuild(ev', guilds)
        /\ ev'.msg.author.id # BotUserId
        /\ C16_Mentioned(ev'.msg)
        /\ ret' # "ConfigError") => forwarded' # {}]_vars

\* C16, amended: the author filter is the author's bot flag.  A message of any
\* bot account is dropped with success.  A message of a non-bot account in a
\* known, complete guild is passed on when the configuration loads and the
\* content begins with a mention of the bot or the guild's prefix, with the
\* matched prefix, and is not passed on when it begins with neither.
C16_BotAuthorsFiltered ==
    [][C16_InCompleteGuild(ev', guilds) =>
         /\ ev'.msg.author.bot => (forwarded' = {} /\ ret' = "Ok")
         /\ (~ev'.msg.author.bot /\ C16_Mentioned(ev'.msg) /\ ret' # "ConfigError")
                => forwarded' # {}
         /\ \A f \in forwarded' :
                /\ ~ev'.msg.author.bot
                /\ f.msg = ev'.msg
                /\ f.prefix \in Prefixes \cup C16_Mentions
                /\ StartsWith(ev'.msg.content, f.prefix)
         /\ (~C16_Mentioned(ev'.msg)
                /\ \A p \in Prefixes : ~StartsWith(ev'.msg.content, p))
                => forwarded' = {}]_vars

\* A command of another bot account, mentioning the bot in a complete guild,
\* has been dropped.
C16_Witness ==
    /\ C16_InCompleteGuild(ev, guilds)
    /\ ev.msg.author = [id |-> BotUserId + 1, bot |-> TRUE]
    /\ C16_Mentioned(ev.msg)
    /\ forwarded = {}
    /\ ret = "Ok"

C17_WithDefaults(w) ==
    [id |-> IF "a" \in DOMAIN w THEN w.a ELSE 0,
     name |-> IF "b" \in DOMAIN w THEN w.b ELSE "",
     color |-> IF "c" \in DOMAIN w THEN w.c ELSE 0,
     hoisted |-> IF "d" \in DOMAIN w THEN w.d ELSE FALSE,
     position |-> IF "e" \in DOMAIN w THEN w.e ELSE 0,
     permissions |-> IF "f" \in DOMAIN w THEN w.f ELSE 0,
     managed |-> IF "g" \in DOMAIN w THEN w.g ELSE FALSE,
     mentionable |-> IF "h" \in DOMAIN w THEN w.h ELSE FALSE]

\* A step that deserializes a role record.
C17_DeserializesRole == ev'.kind = "Deserialize" /\ Unwrap(subject) \in CachedRoles

\* C17 as stated: deserializing a role record succeeds whatever fields are
\* absent from it, each absent field taking the default of its type.
C17_AnyAbsentFieldDefaults ==
    [][C17_DeserializesRole =>
         /\ ret' = "Ok"
         /\ back' = Some(Some(C17_WithDefaults(Unwrap(wire))))]_vars

\* C17, amended: deserializing a role record from which any of color, hoist
\* flag, position, managed flag and mentionable flag is absent succeeds, each
\* absent one taking the default of its type; a record from which the id, the
\* name or the permissions is absent fails to deserialize.
C17_OptionalFieldsDefault ==
    [][C17_DeserializesRole =>
         IF {"a", "b", "f"} \subseteq DOMAIN Unwrap(wire)
         THEN /\ ret' = "Ok"
              /\ back' = Some(Some(C17_WithDefaults(Unwrap(wire))))
         ELSE /\ ret' = "DeserializeError"
              /\ back' = Some(None)]_vars

\* A record of a colored, mentionable role written without these two fields
\* was deserialized: they came back as 0 and false.
C17_Witness ==
    /\ ev.kind = "Deserialize"
    /\ subject # None
    /\ Unwrap(subject) \in CachedRoles
    /\ Unwrap(subject).color # 0
    /\ Unwrap(subject).mentionable
    /\ DOMAIN Unwrap(wire) \cap {"c", "h"} = {}
    /\ ret = "Ok"
    /\ back # None /\ Unwrap(back) # None
    /\ Unwrap(Unwrap(back)).color = 0
    /\ ~Unwrap(Unwrap(back)).mentionable

\* design: get(id) of the entity cache.
get_role(rs, id) == rs[id]

\* Whether the cached role e holds the attributes of the event's role.
C15_Holds(e, role) ==
    /\ e.id = role.id /\ e.name = role.name /\ e.color = role.color
    /\ e.hoisted = role.hoist /\ e.position = role.position
    /\ e.permissions = role.permissions /\ e.managed = role.managed
    /\ e.mentionable = role.mentionable

\* C15: right after an upsert of a role, get of its id returns that role,
\* attribute by attribute; right after a remove it returns nothing; what get
\* returns for an id changes only by an upsert or a remove of that id, so an
\* id never upserted, empty at construction, returns nothing; and a get of an
\* empty id succeeds with nothing.
C15_GetAfterUpsertRemove ==
    [][/\ ev'.kind \in {"RoleCreate", "RoleUpdate"} =>
            /\ get_role(roles', ev'.role.id) # None
            /\ C15_Holds(Unwrap(get_role(roles', ev'.role.id)), ev'.role)
       /\ ev'.kind = "RoleDelete" => get_role(roles', ev'.id) = None
       /\ \A id \in RoleIds :
            get_role(roles', id) # get_role(roles, id) =>
                \/ ev'.kind \in {"RoleCreate", "RoleUpdate"} /\ ev'.role.id = id
                \/ ev'.kind = "RoleDelete" /\ ev'.id = id
       /\ ev'.kind = "GetRole" =>
            /\ ret' = "Ok"
            /\ guard' = get_role(roles, ev'.id)
            /\ get_role(roles, ev'.id) = None => held' = None
            /\ get_role(roles, ev'.id) # None => held' = get_role(roles, ev'.id)]_vars

\* A reader got the hoisted, mentionable admin role 1 that was upserted, while
\* role 2 has no entry.
C15_Witness ==
    /\ ev.kind = "GetRole"
    /\ ev.id = 1
    /\ held # None
    /\ held = get_role(roles, 1)
    /\ Unwrap(held).hoisted /\ Unwrap(held).mentionable
    /\ get_role(roles, 2) = None

\* C20: a role update leaves the snapshot a reader already holds as it was,
\* all eight attributes; the reader's snapshot changes only by its own get;
\* and a get returns the eight attributes of the entry as it is at that
\* moment, so no reader sees attributes of two versions together.
C20_SnapshotsAreWhole ==
    [][/\ ev'.kind = "RoleUpdate" => (guard' = guard /\ held' = held)
       /\ (guard' # guard \/ held' # held) => ev'.kind = "GetRole"
       /\ (ev'.kind = "GetRole" /\ roles[ev'.id] # None) =>
            /\ held' # None
            /\ \A f \in DOMAIN Tag :
                  Unwrap(held')[f] = Unwrap(roles[ev'.id])[f]
            /\ guard' = roles[ev'.id]]_vars

\* A reader holds the all-default version of role 1 while the cache has been
\* updated to a version that differs from it in every attribute but the id.
C20_Witness ==
    /\ ev.kind = "RoleUpdate"
    /\ ev.role.id = 1
    /\ held # None /\ roles[1] # None
    /\ Unwrap(held).id = 1
    /\ \A f \in DOMAIN Tag \ {"id"} : Unwrap(held)[f] # Unwrap(roles[1])[f]
    /\ guard = held

\* A stored snapshot that is absent or fails to deserialize: another version,
\* or a record without a field it cannot be read without.
C14_Unreadable(st) ==
    \/ st = None
    \/ Unwrap(st).version # "v1"
    \/ \E w \in Unwrap(st).entities : ~({"a", "b", "f"} \subseteq DOMAIN w)
    \/ \E t \in DOMAIN Unwrap(st).shards :
          ~({"endpoint", "session", "sequence"} \subseteq DOMAIN Unwrap(st).shards[t])

\* C14: a startup that finds no snapshot, or one that fails to deserialize,
\* completes without error and starts every owned shard by a cold identify:
\* no shard gets a resume triple and the cache stays empty.
C14_ColdStartFallback ==
    [][(ev'.kind = "Startup" /\ C14_Unreadable(store)) =>
         /\ ret' = "Ok"
         /\ \A t \in DOMAIN shard_states :
                boot'[t] = "identify" /\ sessions'[t] = None
         /\ \A id \in RoleIds : roles'[id] = None]_vars

\* The process started from a snapshot of the right version that held the
\* resume triples of both shards and a role record without its permissions:
\* both shards identified and the cache is empty.
C14_Witness ==
    /\ ev.kind = "Startup"
    /\ ev.snapshot # None
    /\ Unwrap(ev.snapshot).version = "v1"
    /\ DOMAIN Unwrap(ev.snapshot).shards = DOMAIN shard_states
    /\ \E w \in Unwrap(ev.snapshot).entities : "f" \notin DOMAIN w
    /\ \E w \in Unwrap(ev.snapshot).entities : {"a", "b", "f"} \subseteq DOMAIN w
    /\ \A t \in DOMAIN shard_states : boot[t] = "identify" /\ sessions[t] = None
    /\ \A id \in RoleIds : roles[id] = None
    /\ ret = "Ok"

\* A message-create step for a direct message of a non-bot author.
C21_DirectMessage(e) ==
    /\ e.kind = "MessageCreate"
    /\ ~e.msg.author.bot
    /\ e.msg.guild_id = None

\* C21: a direct message of a non-bot author is never dropped by the
\* completeness gate, whatever the guilds' state: it is matched against "!"
\* and then the bot's two mentions, handed to the parser with the prefix that
\* matched, and no configuration is loaded for it; it is dropped only when
\* nothing matches.
C21_DirectMessageFixedPrefix ==
    [][C21_DirectMessage(ev') =>
         LET content == ev'.msg.content
             matched == IF StartsWith(content, <<"!">>) THEN {<<"!">>}
                        ELSE IF StartsWith(content, <<"<", "@", "1", ">">>)
                        THEN {<<"<", "@", "1", ">">>}
                        ELSE IF StartsWith(content, <<"<", "@", "!", "1", ">">>)
                        THEN {<<"<", "@", "!", "1", ">">>}
                        ELSE {} IN
         /\ forwarded' = {[prefix |-> m, msg |-> ev'.msg] : m \in matched}
         /\ ret' # "ConfigError"
         /\ matched = {} => ret' = "Ok"
         /\ UNCHANGED <<shardVars, chunkVars, guildVars>>]_vars

\* A human's "!h" sent as a direct message reached the parser while a cached
\* guild is still loading.
C21_Witness ==
    /\ C21_DirectMessage(ev)
    /\ ev.msg.content = <<"!", "h">>
    /\ forwarded = {[prefix |-> <<"!">>, msg |-> ev.msg]}
    /\ \E g \in GuildIds : Known(guilds, g) /\ ~is_guild_complete(guilds, g)

\* A step that handles a shard-ready or gateway-hello event whose presence
\* update failed.
C22_PresenceFailed(e) ==
    /\ e.kind \in {"Ready", "GatewayHello"}
    /\ e.sent = "CommandError"

\* C22: when the presence update of a shard-ready or gateway-hello event
\* fails, the handler returns that failure; the step changes no table entry
\* and no missing counter of another shard, no pending request and no guild.
C22_PresenceFailureReturned ==
    [][C22_PresenceFailed(ev') =>
         /\ ret' = "CommandError"
         /\ \A t \in DOMAIN shard_states \ {ev'.shard} :
                /\ shard_states'[t] = shard_states[t]
                /\ missing_per_shard'[t] = missing_per_shard[t]
         /\ DOMAIN shard_states' = DOMAIN shard_states
         /\ UNCHANGED <<chunkVars, guildVars>>]_vars

\* The presence update of shard 2's ready event failed while shard 3 is Ready.
C22_Witness ==
    /\ C22_PresenceFailed(ev)
    /\ ev.kind = "Ready"
    /\ ev.shard = 2
    /\ ret = "CommandError"
    /\ 3 \in DOMAIN shard_states /\ shard_states[3] = "Ready"

\* C25: right after construction the missing-counter map has the key set of
\* the shard table, every counter is 0, and the pending gauge is the number
\* of table entries in PendingCreation, which is shards_per_cluster.
C25_ConstructionCounters ==
    ev.kind = "New" =>
        /\ DOMAIN missing_per_shard = DOMAIN shard_states
        /\ \A t \in DOMAIN missing_per_shard : missing_per_shard[t] = 0
        /\ pending = Cardinality({t \in DOMAIN shard_states :
                                    shard_states[t] = "PendingCreation"})
        /\ pending = scheme_info.shards_per_cluster

\* The second cluster of two shards per cluster, just constructed.
C25_Witness ==
    /\ ev.kind = "New"
    /\ scheme_info = [cluster_id |-> 1, shards_per_cluster |-> 2]
    /\ DOMAIN missing_per_shard = {2, 3}
    /\ pending = 2

\* The callers that are inside new_message, between its two increments.
C23_InFlight == {c \in Callers : callers[c] # None}

C24_GuildCounterNeverWraps ==
    guild_count = calls.new_guild - calls.left_guild

====
